---- MODULE Spec2Model ----
(***************************************************************************)
(* The shared filtering/state subsystem of the bikespace dashboard         *)
(* (bikespace_dashboard/js/components/main.js): the SharedState store, its *)
(* component registry and refresh broadcast, and the report filters.       *)
(*                                                                         *)
(* JavaScript strings that the code takes apart (root identifiers) are     *)
(* sequences of one-character strings.  A JavaScript object used as a map  *)
(* is the sequence of its [key, value] properties in creation order;       *)
(* ObjectValues and ObjectEntries give the enumeration order of the        *)
(* language (array-index keys first, ascending, then creation order).      *)
(* The call stack of the single UI thread is the sequence "stack".         *)
(***************************************************************************)
EXTENDS Integers, Sequences, FiniteSets, TLC

\* ------------------------------------------------------------------ bounds
\* Components constructed in a session.
MaxComponents == 2
\* Nested `filters = f` assignments in progress at once (re-entrant calls).
MaxDepth == 2
\* Reports in a dataset, and entries in a filter mapping, of the applyFilters runs.
MaxReports == 3
MaxFilters == 2
\* Characters in a root identifier, and components, of the registry runs.
MaxIdLen == 2
MaxRegistrations == 2

\* --------------------------------------------------------- strings, objects
Chars == {"-", "_", "1", "m"}
Digits == {"0", "1", "2", "3", "4", "5", "6", "7", "8", "9"}

\* Every root identifier of one to MaxIdLen characters.
AllRootIds == UNION {[1..n -> Chars] : n \in 1..MaxIdLen}

\* Root identifiers handed to the Component constructor in the store runs:
\* "map", "issue-chart", "issue_chart", "2" and "10".
RootIds == { <<"m", "a", "p">>,
             <<"i", "s", "s", "u", "e", "-", "c", "h", "a", "r", "t">>,
             <<"i", "s", "s", "u", "e", "_", "c", "h", "a", "r", "t">>,
             <<"2">>,
             <<"1", "0">> }

\* String.prototype.replace('-', '_'): a string pattern replaces the first match only.
ReplaceFirst(s, from, to) ==
  IF \E i \in 1..Len(s) : s[i] = from
  THEN LET i == CHOOSE k \in 1..Len(s) :
                  s[k] = from /\ \A j \in 1..(k - 1) : s[j] # from
       IN  [s EXCEPT ![i] = to]
  ELSE s

\* A mutation of elementIdToComponentKey: the first hyphen is dropped, id.replace('-', '').
elementIdToComponentKey_DropsHyphen(id) ==
  IF \E i \in 1..Len(id) : id[i] = "-"
  THEN LET i == CHOOSE k \in 1..Len(id) :
                  id[k] = "-" /\ \A j \in 1..(k - 1) : id[j] # "-"
       IN  SubSeq(id, 1, i - 1) \o SubSeq(id, i + 1, Len(id))
  ELSE id

\* const elementIdToComponentKey = id => id.replace('-', '_')
elementIdToComponentKey(id) == ReplaceFirst(id, "-", "_")

DigitVal(c) ==
  CASE c = "0" -> 0 [] c = "1" -> 1 [] c = "2" -> 2 [] c = "3" -> 3 [] c = "4" -> 4
    [] c = "5" -> 5 [] c = "6" -> 6 [] c = "7" -> 7 [] c = "8" -> 8 [] c = "9" -> 9

\* Decimal numerals without leading zeros compare as numbers by length, then
\* digit by digit.
NumeralLess(a, b) ==
  \/ Len(a) < Len(b)
  \/ /\ Len(a) = Len(b)
     /\ \E i \in 1..Len(a) :
          /\ DigitVal(a[i]) < DigitVal(b[i])
          /\ \A j \in 1..(i - 1) : a[j] = b[j]

\* 2^32 - 1, the first integer that is no array index.
MaxArrayLength == <<"4", "2", "9", "4", "9", "6", "7", "2", "9", "5">>

\* A property key that is a canonical array index: these enumerate first, ascending.
IsArrayIndex(key) ==
  /\ Len(key) > 0
  /\ \A i \in 1..Len(key) : key[i] \in Digits
  /\ (key[1] = "0" => Len(key) = 1)
  /\ NumeralLess(key, MaxArrayLength)

HasKey(obj, key) == \E i \in 1..Len(obj) : obj[i].key = key

\* obj[key] = value: an existing property keeps its place, a new one is appended.
ObjectSet(obj, key, value) ==
  IF HasKey(obj, key)
  THEN [i \in 1..Len(obj) |-> IF obj[i].key = key
                              THEN [key |-> key, value |-> value] ELSE obj[i]]
  ELSE Append(obj, [key |-> key, value |-> value])

RECURSIVE AscendingByIndex(_)
AscendingByIndex(S) ==
  IF S = {} THEN <<>>
  ELSE LET m == CHOOSE e \in S : \A o \in S : ~NumeralLess(o.key, e.key)
       IN  <<m>> \o AscendingByIndex(S \ {m})

IsIndexEntry(e) == IsArrayIndex(e.key)
IsNamedEntry(e) == ~IsArrayIndex(e.key)

\* Object.entries(obj): own properties in the language's enumeration order.
ObjectEntries(obj) ==
  AscendingByIndex({obj[i] : i \in {j \in 1..Len(obj) : IsIndexEntry(obj[j])}})
    \o SelectSeq(obj, IsNamedEntry)

\* Object.values(obj)
ObjectValues(obj) ==
  LET es == ObjectEntries(obj) IN [i \in 1..Len(es) |-> es[i].value]

\* ------------------------------------------------------------------ reports
\* A report as the filters read it: the issue tags (an array), the
\* parking-duration category and the parking time, written as the day of the
\* timestamp counted from 1970-01-01 (a Thursday): Saturday 2024-01-06,
\* Wednesday 2024-01-03 and Sunday 2024-01-07.
Reports == {
  [id |-> 1, issues |-> <<"full">>,            parking_duration |-> "hours",
   parking_time |-> 19728],
  [id |-> 2, issues |-> <<"damaged", "full">>, parking_duration |-> "minutes",
   parking_time |-> 19725],
  [id |-> 3, issues |-> <<>>,                  parking_duration |-> "hours",
   parking_time |-> 19729] }

ReportById(n) == CHOOSE r \in Reports : r.id = n

\* Every dataset of at most MaxReports reports.
Datasets == UNION {[1..n -> Reports] : n \in 0..MaxReports}

\* data.submissions handed to the SharedState constructor in the store runs.
Submissions == { <<ReportById(1), ReportById(2), ReportById(3)>>,
                 <<ReportById(2), ReportById(3), ReportById(2)>> }

\* ------------------------------------------------------------------ filters
\* Array.prototype.includes / Array.prototype.some / Array.prototype.filter
Includes(arr, v) == \E i \in 1..Len(arr) : arr[i] = v

\* A mutation of IssuesFilter.test: every issue of the report has to be in the
\* state.
IssuesFilterTest_Every(state, report) ==
  \A i \in 1..Len(report.issues) : Includes(state, report.issues[i])

\* IssuesFilter.test: at least one of the report's issues is in the state.
IssuesFilterTest(state, report) ==
  \E i \in 1..Len(report.issues) : Includes(state, report.issues[i])

\* ParkingDurationFilter.test: the report's duration is in the state.
ParkingDurationFilterTest(state, report) ==
  Includes(state, report.parking_duration)

\* reportFilter.test(r), dispatched on the filter's class.
Test(reportFilter, report) ==
  CASE reportFilter.kind = "issues" -> IssuesFilterTest(reportFilter.state, report)
    [] reportFilter.kind = "parking_duration" ->
         ParkingDurationFilterTest(reportFilter.state, report)

\* A mutation of the filtering of an array: the reports kept are collected in
\* reverse, each put in front of the ones kept before.
RECURSIVE FilterArray_Reversed(_, _)
FilterArray_Reversed(arr, reportFilter) ==
  IF arr = <<>> THEN <<>>
  ELSE FilterArray_Reversed(Tail(arr), reportFilter)
         \o (IF Test(reportFilter, Head(arr)) THEN <<Head(arr)>> ELSE <<>>)

RECURSIVE FilterArray(_, _)
FilterArray(arr, reportFilter) ==
  IF arr = <<>> THEN <<>>
  ELSE (IF Test(reportFilter, Head(arr)) THEN <<Head(arr)>> ELSE <<>>)
         \o FilterArray(Tail(arr), reportFilter)

\* The loop of applyFilters over filter_list, from entry i on.
RECURSIVE ApplyFilterList(_, _, _)
ApplyFilterList(return_data, filter_list, i) ==
  IF i > Len(filter_list) THEN return_data
  ELSE ApplyFilterList(FilterArray(return_data, filter_list[i].value), filter_list, i + 1)

\* A mutation of applyFilters: the filtered array is written back to response_data.
applyFilters_WritesBack(response_data_, filters_) ==
  LET filter_list == ObjectEntries(filters_)
      out == ApplyFilterList(response_data_, filter_list, 1)
  IN  [ret |-> out, response_data |-> out]

\* A mutation of applyFilters: without the else branch an empty mapping gives
\* an empty array.
applyFilters_NoElse(response_data_, filters_) ==
  LET filter_list == ObjectEntries(filters_)
  IN  [ret |-> IF Len(filter_list) > 0
               THEN ApplyFilterList(response_data_, filter_list, 1)
               ELSE <<>>,
       response_data |-> response_data_]

\* A mutation of applyFilters: only the first entry of filter_list is applied.
applyFilters_FirstOnly(response_data_, filters_) ==
  LET filter_list == ObjectEntries(filters_)
  IN  [ret |-> IF Len(filter_list) > 0
               THEN FilterArray(response_data_, filter_list[1].value)
               ELSE response_data_,
       response_data |-> response_data_]

\* SharedState.applyFilters(filters) on a store holding response_data_: the
\* value returned and the store's response_data afterwards.
applyFilters(response_data_, filters_) ==
  LET filter_list == ObjectEntries(filters_)
  IN  [ret |-> IF Len(filter_list) > 0
               THEN ApplyFilterList(response_data_, filter_list, 1)
               ELSE response_data_,
       response_data |-> response_data_]

IssuesFull == [kind |-> "issues", state |-> <<"full">>]
IssuesDamaged == [kind |-> "issues", state |-> <<"damaged">>]
IssuesNone == [kind |-> "issues", state |-> <<>>]
DurationHours == [kind |-> "parking_duration", state |-> <<"hours">>]
DurationAny == [kind |-> "parking_duration", state |-> <<"minutes", "hours">>]

ReportFilters == {IssuesFull, IssuesDamaged, IssuesNone, DurationHours, DurationAny}
FilterKeys == {<<"issues">>, <<"parking_duration">>, <<"1">>}

\* Every mapping of at most MaxFilters filters under distinct keys, the
\* properties in any creation order.
AllFilterStates ==
  UNION {
    {m \in [1..n -> [key : FilterKeys, value : ReportFilters]] :
       \A i, j \in 1..n : i # j => m[i].key # m[j].key}
    : n \in 0..MaxFilters }

\* Filter mappings the callers assign in the store runs.
FilterStates == {
  <<>>,
  <<[key |-> <<"issues">>, value |-> IssuesFull]>>,
  <<[key |-> <<"parking_duration">>, value |-> DurationHours],
    [key |-> <<"issues">>, value |-> IssuesFull]>> }

\* ------------------------------------------------------------ analytics_event
\* The analytics collaborator as the call finds it: umami.track returns, it
\* throws, or no umami is defined and the reference is a ReferenceError.
Umami == {"returns", "throws", "undefined"}

\* The try block: umami.track(event_name, data) or umami.track(event_name).
TrackOutcome(umami) ==
  CASE umami = "returns" -> "none"
    [] umami = "throws" -> "Error"
    [] umami = "undefined" -> "ReferenceError"

\* A mutation of analytics_event: the tracking call is made outside of any
\* try block.
analytics_event_NoCatch(data_given, umami) ==
  [threw |-> TrackOutcome(umami) # "none",
   arguments |-> IF data_given THEN 2 ELSE 1,
   logged |-> FALSE]

\* Component.analytics_event(event_name, data): what is thrown in the try
\* block is caught and logged.
analytics_event(data_given, umami) ==
  [threw |-> FALSE,
   arguments |-> IF data_given THEN 2 ELSE 1,
   logged |-> TrackOutcome(umami) # "none"]

\* ------------------------------------------------------- JavaScript values
\* The values handed to the filters' constructors and to stateEquals. Objects
\* and arrays carry a reference: two of them are the same value only when
\* they are the same object.
JsString(chars) == [t |-> "string", chars |-> chars]
JsNumber(n) == [t |-> "number", n |-> n]
JsNull == [t |-> "null"]
JsUndefined == [t |-> "undefined"]
JsObject(ref, props) == [t |-> "object", ref |-> ref, props |-> props]
JsArray(ref, items) == [t |-> "array", ref |-> ref, items |-> items]

\* x instanceof Array
InstanceOfArray(x) == x.t = "array"

\* typeof x
TypeOf(x) == IF x.t \in {"null", "object", "array"} THEN "object" ELSE x.t

\* String.prototype.toLowerCase, on the letters of the Latin alphabet.
UpperCase == <<"A", "B", "C", "D", "E", "F", "G", "H", "I", "J", "K", "L", "M",
               "N", "O", "P", "Q", "R", "S", "T", "U", "V", "W", "X", "Y", "Z">>
LowerCase == <<"a", "b", "c", "d", "e", "f", "g", "h", "i", "j", "k", "l", "m",
               "n", "o", "p", "q", "r", "s", "t", "u", "v", "w", "x", "y", "z">>
toLowerCase(chars) ==
  [i \in 1..Len(chars) |->
     IF \E k \in 1..Len(UpperCase) : UpperCase[k] = chars[i]
     THEN LowerCase[CHOOSE k \in 1..Len(UpperCase) : UpperCase[k] = chars[i]]
     ELSE chars[i]]

\* ------------------------------------------------------ filter construction
\* What `new` gives: the instance, or the error thrown and no instance.
Constructed(instance) == [threw |-> FALSE, error |-> "none", instance |-> <<instance>>]
Threw(error) == [threw |-> TRUE, error |-> error, instance |-> <<>>]

\* A mutation of the base constructor: the state is stored without the
\* instanceof check.
ReportFilter_Unchecked(state) == Constructed([_state |-> state])

\* ReportFilter.constructor(state)
ReportFilter(state) ==
  IF ~InstanceOfArray(state)
  THEN Threw("Error: ReportFilter state must be an Array")
  ELSE Constructed([_state |-> state])

\* A mutation of the WeekDayPeriodFilter constructor: the names are stored as given.
WeekDayPeriodFilter_KeepsCase(state) == ReportFilter(state)

\* WeekDayPeriodFilter.constructor(state): super(state), then every element is
\* lower-cased into a new array (its reference is written as the negative of
\* the old one); an element or a state without the method makes the call a
\* TypeError.
WeekDayPeriodFilter(state) ==
  LET base == ReportFilter(state)
  IN  IF base.threw THEN base
      ELSE LET _state == base.instance[1]._state
           IN  IF ~InstanceOfArray(_state)
               THEN Threw("TypeError: this._state.map is not a function")
               ELSE IF \E i \in 1..Len(_state.items) : _state.items[i].t # "string"
               THEN Threw("TypeError: x.toLowerCase is not a function")
               ELSE Constructed([_state |->
                      JsArray(0 - _state.ref,
                              [i \in 1..Len(_state.items) |->
                                 JsString(toLowerCase(_state.items[i].chars))])])

\* The filterKey of each variant.
Variants == {"issues", "date_range", "weekday_period", "parking_duration"}

\* new IssuesFilter(state), new DateRangeFilter(state),
\* new WeekDayPeriodFilter(state), new ParkingDurationFilter(state)
NewFilterOf(variant, state) ==
  IF variant = "weekday_period" THEN WeekDayPeriodFilter(state) ELSE ReportFilter(state)

\* --------------------------------------------------------------- stateEquals
\* Object.keys(x): the own keys of an object, the indices of an array. A
\* TypeError when x is null, which deepEquals checks before calling this.
IndexKeys == <<<<"0">>, <<"1">>, <<"2">>, <<"3">>>>
ObjectKeys(x) ==
  IF x.t = "array" THEN {IndexKeys[i] : i \in 1..Len(x.items)}
  ELSE {x.props[i].key : i \in 1..Len(x.props)}

\* key in x, for x an object or an array whose keys name no member of
\* Object.prototype or Array.prototype.
length == <<"l", "e", "n", "g", "t", "h">>
KeyIn(key, x) == key \in ObjectKeys(x) \/ (x.t = "array" /\ key = length)

\* x[key]
GetProperty(x, key) ==
  IF x.t = "array"
  THEN IF key = length THEN JsNumber(Len(x.items))
       ELSE IF \E i \in 1..Len(x.items) : IndexKeys[i] = key
       THEN x.items[CHOOSE i \in 1..Len(x.items) : IndexKeys[i] = key]
       ELSE JsUndefined
  ELSE IF \E i \in 1..Len(x.props) : x.props[i].key = key
       THEN x.props[CHOOSE i \in 1..Len(x.props) : x.props[i].key = key].value
       ELSE JsUndefined

\* x1 === x2: primitives by value, objects and arrays by identity.
StrictEquals(x1, x2) ==
  /\ x1.t = x2.t
  /\ CASE x1.t = "string" -> x1.chars = x2.chars
       [] x1.t = "number" -> x1.n = x2.n
       [] x1.t \in {"object", "array"} -> x1.ref = x2.ref
       [] OTHER -> TRUE

\* ReportFilter.deepEquals(x1, x2): "true", "false", or "TypeError" when
\* Object.keys is called on null.
deepEquals(x1, x2) ==
  IF TypeOf(x1) # TypeOf(x2) THEN "false"
  ELSE IF TypeOf(x1) = "object"
  THEN IF x1.t = "null" \/ x2.t = "null" THEN "TypeError"
       ELSE IF Cardinality(ObjectKeys(x1)) # Cardinality(ObjectKeys(x2)) THEN "false"
       ELSE IF \A key1 \in ObjectKeys(x1) :
                 KeyIn(key1, x2) /\ StrictEquals(GetProperty(x1, key1), GetProperty(x2, key1))
       THEN "true"
       ELSE "false"
  ELSE IF StrictEquals(x1, x2) THEN "true" ELSE "false"

\* ReportFilter.stateEquals(otherState): the loop ends at the first pair that
\* is not equal, with false or with the TypeError of deepEquals.
stateEquals(_state, otherState) ==
  IF ~InstanceOfArray(otherState) THEN "false"
  ELSE IF Len(_state.items) # Len(otherState.items) THEN "false"
  ELSE LET differ == {i \in 1..Len(_state.items) :
                        deepEquals(_state.items[i], otherState.items[i]) # "true"}
       IN  IF differ = {} THEN "true"
           ELSE LET first == CHOOSE i \in differ : \A j \in differ : i <= j
                IN  deepEquals(_state.items[first], otherState.items[first])

\* Elements of the states compared: strings, a number, null, two objects {x: 1},
\* two objects {x: {y: 1}} each with an inner object of its own, the array [1]
\* and the object {0: 1}.
Elements ==
  { JsString(<<"a">>), JsString(<<"b">>), JsNumber(1), JsNull,
    JsObject(1, <<[key |-> <<"x">>, value |-> JsNumber(1)]>>),
    JsObject(2, <<[key |-> <<"x">>, value |-> JsNumber(1)]>>),
    JsObject(3, <<[key |-> <<"x">>,
                   value |-> JsObject(5, <<[key |-> <<"y">>, value |-> JsNumber(1)]>>)]>>),
    JsObject(4, <<[key |-> <<"x">>,
                   value |-> JsObject(6, <<[key |-> <<"y">>, value |-> JsNumber(1)]>>)]>>),
    JsArray(7, <<JsNumber(1)>>),
    JsObject(8, <<[key |-> <<"0">>, value |-> JsNumber(1)]>>) }

\* The states of the filters compared: [], every [e], ["a", "b"] and ["b", "a"].
ComparedStates ==
  {JsArray(9, <<>>)}
    \cup {JsArray(10, <<e>>) : e \in Elements}
    \cup {JsArray(10, <<JsString(<<"a">>), JsString(<<"b">>)>>),
          JsArray(10, <<JsString(<<"b">>), JsString(<<"a">>)>>)}

\* What stateEquals is given: an array of another identity with the same kinds
\* of elements, or a value that is no array.
OtherStates ==
  {JsArray(11, st.items) : st \in ComparedStates} \cup {JsNull, JsString(<<"a">>)}

\* States handed to the constructors: arrays, and values that are no arrays
\* (a string, null, undefined, a number, an array-like object).
saturday == <<"s", "a", "t", "u", "r", "d", "a", "y">>
Saturday == <<"S", "a", "t", "u", "r", "d", "a", "y">>
SATURDAY == <<"S", "A", "T", "U", "R", "D", "A", "Y">>
Sunday == <<"S", "u", "n", "d", "a", "y">>
wednesday == <<"w", "e", "d", "n", "e", "s", "d", "a", "y">>
someday == <<"s", "o", "m", "e", "d", "a", "y">>
ArrayLike ==
  JsObject(1, <<[key |-> <<"0">>, value |-> JsString(saturday)],
                [key |-> <<"l", "e", "n", "g", "t", "h">>, value |-> JsNumber(1)]>>)
ConstructorStates ==
  { JsArray(1, <<>>),
    JsArray(1, <<JsString(Saturday), JsString(Sunday)>>),
    JsArray(1, <<JsNumber(1)>>),
    JsString(saturday),
    JsNull,
    JsUndefined,
    JsNumber(1),
    ArrayLike }

\* ----------------------------------------------------- WeekDayPeriodFilter
\* parseParkingTime(report.parking_time): the DateTime of the parking time, of
\* which test reads the ISO weekday, Monday = 1 to Sunday = 7.
parseParkingTime(parking_time) == [weekday |-> ((parking_time + 3) % 7) + 1]

\* WeekDayPeriodFilter.#dayIndex[x]: undefined for a string that is no key.
monday == <<"m", "o", "n", "d", "a", "y">>
tuesday == <<"t", "u", "e", "s", "d", "a", "y">>
thursday == <<"t", "h", "u", "r", "s", "d", "a", "y">>
friday == <<"f", "r", "i", "d", "a", "y">>
sunday == <<"s", "u", "n", "d", "a", "y">>
dayIndexKeys == <<monday, tuesday, wednesday, thursday, friday, saturday, sunday>>
dayIndex(x) ==
  IF \E k \in 1..Len(dayIndexKeys) : dayIndexKeys[k] = x.chars
  THEN JsNumber(CHOOSE k \in 1..Len(dayIndexKeys) : dayIndexKeys[k] = x.chars)
  ELSE JsUndefined

\* WeekDayPeriodFilter.test(report)
WeekDayPeriodFilterTest(_state, report) ==
  LET dt == parseParkingTime(report.parking_time)
      inclWeekdays == [i \in 1..Len(_state.items) |-> dayIndex(_state.items[i])]
  IN  \E i \in 1..Len(inclWeekdays) : StrictEquals(inclWeekdays[i], JsNumber(dt.weekday))

\* States of the weekday filters constructed: in lower, upper and mixed case,
\* with a string that names no weekday, and empty.
WeekdayStates ==
  { JsArray(1, <<>>),
    JsArray(1, <<JsString(Saturday), JsString(Sunday)>>),
    JsArray(1, <<JsString(SATURDAY)>>),
    JsArray(1, <<JsString(saturday)>>),
    JsArray(1, <<JsString(wednesday), JsString(someday)>>),
    JsArray(1, <<JsString(someday)>>) }

\* -------------------------------------------------------------------- state
VARIABLES
  components,     \* SharedState.components: the registry object
  filters,        \* SharedState._filters
  display_data,   \* SharedState._display_data
  response_data,  \* SharedState.response_data
  registered,     \* root_id of every Component constructed, in construction order
  stack,          \* calls of the store in progress on the UI thread, innermost last
  exc,            \* the exception in flight, "none" when there is none
  call,           \* a direct call of applyFilters(filters): its argument and what it returned
  trial,          \* a call of a filter's or a component's own method: its inputs and outcome
  produced        \* the mapping and display_data of the first assignment observed

vars == <<components, filters, display_data, response_data, registered, stack, exc, call,
          trial, produced>>

\* No method of a filter or component is being called.
NoTrial == [op |-> "none", made |-> FALSE]

\* Components are named by their construction number.
ComponentIds == 1..Len(registered)

\* SharedState.constructor(data)
Init ==
  /\ response_data \in Submissions
  /\ display_data = response_data
  /\ components = <<>>
  /\ filters = <<>>
  /\ registered = <<>>
  /\ stack = <<>>
  /\ exc = "none"
  /\ call = [made |-> FALSE, filters |-> <<>>, ret |-> <<>>]
  /\ trial = NoTrial
  /\ produced = <<>>

\* A mutation of registerComponent: the new entry is put in front of the others.
registerComponent_Prepend(components_, component) ==
  LET key == elementIdToComponentKey(component.root_id)
  IN  [components |-> <<[key |-> key, value |-> component.id]>>
                        \o SelectSeq(components_, LAMBDA e : e.key # key),
       key |-> key]

\* A mutation of registerComponent: the registry is replaced by the new entry.
registerComponent_Resets(components_, component) ==
  LET key == elementIdToComponentKey(component.root_id)
  IN  [components |-> <<[key |-> key, value |-> component.id]>>, key |-> key]

\* SharedState.registerComponent(component): the registry afterwards and the key returned.
registerComponent(components_, component) ==
  LET key == elementIdToComponentKey(component.root_id)
  IN  [components |-> ObjectSet(components_, key, component.id), key |-> key]

\* The statements of `set filters(f)`, in order.
SetterSteps_RefreshFirst == <<"assign", "refresh", "recompute">>
SetterSteps == <<"assign", "recompute", "refresh">>
\* The statements of a direct call of refresh().
RefreshSteps == <<"refresh">>

\* A call of the setter or of refresh() in progress: the statements it runs and
\* the one it is at, the mapping assigned, the array Object.values gave the loop
\* and the loop's position, whether a component's refresh() is running, and, as a
\* record of the broadcast, the components the registry held when the loop
\* started and the components whose refresh() was called, in call order.
Frame(steps, f) ==
  [steps |-> steps, pc |-> 1, f |-> f, order |-> <<>>, next |-> 0, running |-> FALSE,
   held |-> {}, calls |-> <<>>]

Held(components_) == {components_[i].value : i \in 1..Len(components_)}

\* A mutation of the loop of refresh(): it stops one component early.
LoopDone_OneEarly(fr) == fr.next >= Len(fr.order)

\* for (const module of Object.values(this.components)): the array is exhausted.
LoopDone(fr) == fr.next > Len(fr.order)

Top == stack[Len(stack)]
Pop(stk) == SubSeq(stk, 1, Len(stk) - 1)
SetTop(stk, fr) == [stk EXCEPT ![Len(stk)] = fr]
AtStep(name) ==
  /\ stack # <<>>
  /\ exc = "none"
  /\ Top.pc <= Len(Top.steps)
  /\ Top.steps[Top.pc] = name

\* A mutation: the store gives the thread back between two components of a
\* broadcast, and a handler starts there.
Idle_Anytime ==
  exc = "none" /\ ~call.made /\ ~trial.made /\ (stack # <<>> => ~Top.running)

\* The store's methods are synchronous: a handler starts when no call is in progress.
Idle == stack = <<>> /\ exc = "none" /\ ~call.made /\ ~trial.made

\* A mutation of the construction: registering the component also starts a
\* refresh() of the store.
Construct_Refreshes(root_id) ==
  /\ Idle
  /\ registered' = Append(registered, root_id)
  /\ components' = registerComponent(components,
                     [id |-> Len(registered) + 1, root_id |-> root_id]).components
  /\ stack' = Append(stack, Frame(RefreshSteps, <<>>))
  /\ UNCHANGED <<filters, display_data, response_data, exc, call, trial, produced>>

\* new Component(parent, root_id, shared_state)
Construct(root_id) ==
  /\ Idle
  /\ registered' = Append(registered, root_id)
  /\ components' = registerComponent(components,
                     [id |-> Len(registered) + 1, root_id |-> root_id]).components
  /\ UNCHANGED <<filters, display_data, response_data, stack, exc, call, trial, produced>>

\* shared_state.filters = f, from an event handler
SetFilters(f) ==
  /\ Idle
  /\ stack' = Append(stack, Frame(SetterSteps, f))
  /\ UNCHANGED <<components, filters, display_data, response_data, registered, exc, call, trial, produced>>

\* shared_state.refresh(), from an event handler
CallRefresh ==
  /\ Idle
  /\ stack' = Append(stack, Frame(RefreshSteps, <<>>))
  /\ UNCHANGED <<components, filters, display_data, response_data, registered, exc, call, trial, produced>>

\* this._filters = f
StepAssign ==
  /\ AtStep("assign")
  /\ filters' = Top.f
  /\ stack' = SetTop(stack, [Top EXCEPT !.pc = @ + 1])
  /\ UNCHANGED <<components, display_data, response_data, registered, exc, call, trial, produced>>

\* A mutation of the recomputation: the filters are applied to what is
\* displayed, not to response_data.
StepRecompute_FromDisplayed ==
  /\ AtStep("recompute")
  /\ LET r == applyFilters(display_data, filters)
     IN  /\ display_data' = r.ret
         /\ response_data' = response_data
  /\ stack' = SetTop(stack, [Top EXCEPT !.pc = @ + 1])
  /\ UNCHANGED <<components, filters, registered, exc, call, trial, produced>>

\* this._display_data = this.applyFilters(this._filters)
StepRecompute ==
  /\ AtStep("recompute")
  /\ LET r == applyFilters(response_data, filters)
     IN  /\ display_data' = r.ret
         /\ response_data' = r.response_data
  /\ stack' = SetTop(stack, [Top EXCEPT !.pc = @ + 1])
  /\ UNCHANGED <<components, filters, registered, exc, call, trial, produced>>

\* refresh(): Object.values(this.components) is taken once, when the loop starts.
LoopBegin ==
  /\ AtStep("refresh")
  /\ Top.next = 0
  /\ stack' = SetTop(stack, [Top EXCEPT !.order = ObjectValues(components), !.next = 1,
                                        !.held = Held(components)])
  /\ UNCHANGED <<components, filters, display_data, response_data, registered, exc, call, trial, produced>>

\* module.refresh() is called for the next component of the loop.
Invoke ==
  /\ AtStep("refresh")
  /\ Top.next >= 1
  /\ ~LoopDone(Top)
  /\ ~Top.running
  /\ stack' = SetTop(stack, [Top EXCEPT !.running = TRUE,
                                        !.calls = Append(@, Top.order[Top.next])])
  /\ UNCHANGED <<components, filters, display_data, response_data, registered, exc, call, trial, produced>>

\* The component's refresh() returns.
RefreshReturns ==
  /\ AtStep("refresh")
  /\ Top.running
  /\ stack' = SetTop(stack, [Top EXCEPT !.running = FALSE, !.next = @ + 1])
  /\ UNCHANGED <<components, filters, display_data, response_data, registered, exc, call, trial, produced>>

\* A mutation: when a component's refresh() throws, the store goes back to
\* the empty mapping and the full dataset.
RefreshThrows_RollsBack ==
  /\ AtStep("refresh")
  /\ Top.running
  /\ stack' = SetTop(stack, [Top EXCEPT !.running = FALSE])
  /\ exc' = "raised"
  /\ filters' = <<>>
  /\ display_data' = response_data
  /\ UNCHANGED <<components, response_data, registered, call, trial, produced>>

\* The component's refresh() throws.
RefreshThrows ==
  /\ AtStep("refresh")
  /\ Top.running
  /\ stack' = SetTop(stack, [Top EXCEPT !.running = FALSE])
  /\ exc' = "raised"
  /\ UNCHANGED <<components, filters, display_data, response_data, registered, call, trial, produced>>

\* The component's refresh() assigns shared_state.filters itself.
RefreshSetsFilters(f) ==
  /\ AtStep("refresh")
  /\ Top.running
  /\ Len(stack) < MaxDepth
  /\ stack' = Append(stack, Frame(SetterSteps, f))
  /\ UNCHANGED <<components, filters, display_data, response_data, registered, exc, call, trial, produced>>

\* The component's refresh() constructs another Component.
RefreshConstructs(root_id) ==
  /\ AtStep("refresh")
  /\ Top.running
  /\ Len(registered) < MaxComponents
  /\ registered' = Append(registered, root_id)
  /\ components' = registerComponent(components,
                     [id |-> Len(registered) + 1, root_id |-> root_id]).components
  /\ UNCHANGED <<filters, display_data, response_data, stack, exc, call, trial, produced>>

\* The loop of refresh() has gone through the components it took.
LoopEnd ==
  /\ AtStep("refresh")
  /\ Top.next >= 1
  /\ ~Top.running
  /\ LoopDone(Top)
  /\ stack' = SetTop(stack, [Top EXCEPT !.pc = @ + 1])
  /\ UNCHANGED <<components, filters, display_data, response_data, registered, exc, call, trial, produced>>

\* The setter (or refresh()) returns to its caller.
Return ==
  /\ stack # <<>>
  /\ exc = "none"
  /\ Top.pc > Len(Top.steps)
  /\ stack' = Pop(stack)
  /\ UNCHANGED <<components, filters, display_data, response_data, registered, exc, call, trial, produced>>

\* A mutation of the loop of refresh(): the error of a component is caught and
\* the loop goes on with the next component.
OnRefreshError_Caught(stk) ==
  [stack |-> SetTop(stk, [stk[Len(stk)] EXCEPT !.next = @ + 1]), exc |-> "none"]

\* An error thrown by module.refresh(): refresh() and the setter hold no try/catch,
\* so the call in progress is left and the error reaches its caller.
OnRefreshError(stk) ==
  [stack |-> Pop(stk),
   exc |-> IF stk[Len(stk)].steps = SetterSteps THEN "fromSetter" ELSE "fromRefresh"]

Unwind ==
  /\ stack # <<>>
  /\ exc = "raised"
  /\ LET r == OnRefreshError(stack)
     IN  stack' = r.stack /\ exc' = r.exc
  /\ UNCHANGED <<components, filters, display_data, response_data, registered, call, trial, produced>>

\* The error left a setter called by a component's refresh(): that component
\* catches it,
ComponentCatches ==
  /\ stack # <<>>
  /\ exc = "fromSetter"
  /\ exc' = "none"
  /\ UNCHANGED <<components, filters, display_data, response_data, registered, stack, call, trial, produced>>

\* or lets it through.
ComponentRethrows ==
  /\ stack # <<>>
  /\ exc = "fromSetter"
  /\ stack' = SetTop(stack, [Top EXCEPT !.running = FALSE])
  /\ exc' = "raised"
  /\ UNCHANGED <<components, filters, display_data, response_data, registered, call, trial, produced>>

\* The error reached the event handler that called the store; the handler ends.
HandlerEnds ==
  /\ stack = <<>>
  /\ exc # "none"
  /\ exc' = "none"
  /\ UNCHANGED <<components, filters, display_data, response_data, registered, stack, call, trial, produced>>

\* shared_state.applyFilters(custom), called directly.
CallApplyFilters(custom) ==
  /\ Idle
  /\ LET r == applyFilters(response_data, custom)
     IN  /\ call' = [made |-> TRUE, filters |-> custom, ret |-> r.ret]
         /\ response_data' = r.response_data
  /\ UNCHANGED <<components, filters, display_data, registered, stack, exc, trial, produced>>

\* The handler that called applyFilters has used the array returned, and ends.
HandlerTakesResult ==
  /\ call.made
  /\ stack = <<>>
  /\ call' = [made |-> FALSE, filters |-> <<>>, ret |-> <<>>]
  /\ UNCHANGED <<components, filters, display_data, response_data, registered, stack, exc, trial, produced>>

Next ==
  \/ \E root_id \in RootIds : Len(registered) < MaxComponents /\ Construct(root_id)
  \/ \E f \in FilterStates : SetFilters(f)
  \/ CallRefresh
  \/ StepAssign
  \/ StepRecompute
  \/ LoopBegin
  \/ Invoke
  \/ RefreshReturns
  \/ RefreshThrows
  \/ \E f \in FilterStates : RefreshSetsFilters(f)
  \/ \E root_id \in RootIds : RefreshConstructs(root_id)
  \/ LoopEnd
  \/ Return
  \/ Unwind
  \/ ComponentCatches
  \/ ComponentRethrows
  \/ HandlerEnds
  \/ \E custom \in FilterStates : CallApplyFilters(custom)
  \/ HandlerTakesResult

Spec == Init /\ [][Next]_vars

\* ------------------------------------------------------- the registry alone
\* Components constructed with any root identifiers.
NextRegistry ==
  \E root_id \in AllRootIds : Len(registered) < MaxRegistrations /\ Construct(root_id)

SpecRegistry == Init /\ [][NextRegistry]_vars

\* ---------------------------------------------------------- applyFilters alone
InitApply ==
  /\ response_data \in Datasets
  /\ display_data = response_data
  /\ components = <<>>
  /\ filters = <<>>
  /\ registered = <<>>
  /\ stack = <<>>
  /\ exc = "none"
  /\ call \in [made : {FALSE}, filters : AllFilterStates, ret : {<<>>}]
  /\ trial = NoTrial
  /\ produced = <<>>

\* The mapping the caller built is passed to applyFilters.
NextApply == CallApplyFilters(call.filters)

SpecApply == InitApply /\ [][NextApply]_vars

\* ------------------------------------------- assignments on a store alone
\* A store constructed on any dataset, with no component registered.
InitAssign ==
  /\ response_data \in Datasets
  /\ display_data = response_data
  /\ components = <<>>
  /\ filters = <<>>
  /\ registered = <<>>
  /\ stack = <<>>
  /\ exc = "none"
  /\ call = [made |-> FALSE, filters |-> <<>>, ret |-> <<>>]
  /\ trial = NoTrial
  /\ produced = <<>>

\* Handlers assign mappings, the empty one among them, and call
\* applyFilters({}) directly.
NextAssign ==
  \/ \E f \in FilterStates : SetFilters(f)
  \/ StepAssign
  \/ StepRecompute
  \/ LoopBegin
  \/ LoopEnd
  \/ Return
  \/ CallApplyFilters(<<>>)
  \/ HandlerTakesResult

SpecAssign == InitAssign /\ [][NextAssign]_vars

\* ------------------------------------------------- assignments made again
\* `filters = f` has just stored its recomputed _display_data and has not yet
\* begun its refresh().
JustRecomputed == AtStep("refresh") /\ Top.steps = SetterSteps /\ Top.next = 0

\* What one assignment produced is noted: its mapping, the _display_data it
\* stored and the number of components constructed by then.
Observe ==
  /\ JustRecomputed
  /\ produced = <<>>
  /\ produced' = <<[f |-> Top.f, display_data |-> display_data, at |-> Len(registered)]>>
  /\ UNCHANGED <<components, filters, display_data, response_data, registered, stack, exc, call, trial>>

\* Root identifiers of the components of these runs: "map" and "issue-chart".
RepeatRootIds == {id \in RootIds : Len(id) > 2 /\ \A i \in 1..Len(id) : id[i] # "_"}

\* Components are constructed and mappings assigned, from handlers and from
\* refresh(), before and after the assignment noted.
NextRepeat ==
  \/ \E root_id \in RepeatRootIds : Len(registered) < MaxComponents /\ Construct(root_id)
  \/ \E f \in FilterStates : SetFilters(f)
  \/ StepAssign
  \/ StepRecompute
  \/ Observe
  \/ LoopBegin
  \/ Invoke
  \/ RefreshReturns
  \/ \E f \in FilterStates : RefreshSetsFilters(f)
  \/ LoopEnd
  \/ Return

SpecRepeat == Init /\ [][NextRepeat]_vars

\* ------------------------------------------- the filters and their methods
\* new <variant>(state), from an event handler
NewFilter(variant, state) ==
  /\ Idle
  /\ trial' = [op |-> "new", made |-> TRUE, variant |-> variant, state |-> state,
               outcome |-> NewFilterOf(variant, state)]
  /\ UNCHANGED <<components, filters, display_data, response_data, registered, stack, exc, call, produced>>

\* new IssuesFilter(state).stateEquals(otherState), from an event handler
StateEquals(state, otherState) ==
  /\ Idle
  /\ ~ReportFilter(state).threw
  /\ LET _state == ReportFilter(state).instance[1]._state
     IN  trial' = [op |-> "stateEquals", made |-> TRUE, state |-> _state,
                   otherState |-> otherState,
                   outcome |-> stateEquals(_state, otherState)]
  /\ UNCHANGED <<components, filters, display_data, response_data, registered, stack, exc, call, produced>>

\* component.analytics_event(event_name, data), from an event handler or from
\* the component's refresh(); an error it threw would leave refresh() as any
\* error of refresh() does.
AnalyticsEvent(data_given, umami) ==
  /\ ~trial.made /\ ~call.made /\ exc = "none"
  /\ Len(registered) > 0
  /\ stack = <<>> \/ (AtStep("refresh") /\ Top.running)
  /\ LET r == analytics_event(data_given, umami)
     IN  /\ trial' = [op |-> "analytics_event", made |-> TRUE, umami |-> umami,
                      outcome |-> r]
         /\ IF r.threw /\ stack # <<>>
            THEN stack' = SetTop(stack, [Top EXCEPT !.running = FALSE]) /\ exc' = "raised"
            ELSE UNCHANGED <<stack, exc>>
  /\ UNCHANGED <<components, filters, display_data, response_data, registered, call, produced>>

\* new WeekDayPeriodFilter(state).test(report), from an event handler
TestWeekDay(state, report) ==
  /\ Idle
  /\ ~WeekDayPeriodFilter(state).threw
  /\ LET _state == WeekDayPeriodFilter(state).instance[1]._state
     IN  trial' = [op |-> "test", made |-> TRUE, variant |-> "weekday_period",
                   given |-> state, state |-> _state, report |-> report,
                   outcome |-> WeekDayPeriodFilterTest(_state, report)]
  /\ UNCHANGED <<components, filters, display_data, response_data, registered, stack, exc, call, produced>>

\* reportFilter.test(report) of an IssuesFilter or a ParkingDurationFilter,
\* from an event handler
TestFilter(reportFilter, report) ==
  /\ Idle
  /\ trial' = [op |-> "test", made |-> TRUE, variant |-> reportFilter.kind,
               reportFilter |-> reportFilter, report |-> report,
               outcome |-> Test(reportFilter, report)]
  /\ UNCHANGED <<components, filters, display_data, response_data, registered, stack, exc, call, produced>>

\* The handler that called the method ends: with the value returned, or with
\* the error thrown, which no frame of the store is there to receive.
TrialEnds ==
  /\ trial.made
  /\ trial' = NoTrial
  /\ UNCHANGED <<components, filters, display_data, response_data, registered, stack, exc, call, produced>>

\* Handlers construct components, assign mappings and call the filters.
NextFilters ==
  \/ \E root_id \in RepeatRootIds : Len(registered) < MaxComponents /\ Construct(root_id)
  \/ \E f \in FilterStates : SetFilters(f)
  \/ StepAssign
  \/ StepRecompute
  \/ LoopBegin
  \/ Invoke
  \/ RefreshReturns
  \/ LoopEnd
  \/ Return
  \/ \E variant \in Variants, state \in ConstructorStates : NewFilter(variant, state)
  \/ \E state \in ComparedStates, otherState \in OtherStates : StateEquals(state, otherState)
  \/ \E data_given \in BOOLEAN, umami \in Umami : AnalyticsEvent(data_given, umami)
  \/ \E state \in WeekdayStates, report \in Reports : TestWeekDay(state, report)
  \/ \E reportFilter \in ReportFilters, report \in Reports : TestFilter(reportFilter, report)
  \/ TrialEnds

SpecFilters == Init /\ [][NextFilters]_vars

\* --------------------------------------------- callers that hold the mapping
\* `get filters()` hands out this._filters itself, not a copy.
GetFiltersReturnsStoreObject == TRUE

\* m = shared_state.filters; m[key] = reportFilter
CallerSetsEntry(key, reportFilter) ==
  /\ Idle
  /\ filters' = IF GetFiltersReturnsStoreObject
                THEN ObjectSet(filters, key, reportFilter) ELSE filters
  /\ UNCHANGED <<components, display_data, response_data, registered, stack, exc, call, trial, produced>>

\* m = shared_state.filters; delete m[key]
CallerDeletesEntry(key) ==
  /\ Idle
  /\ HasKey(filters, key)
  /\ filters' = IF GetFiltersReturnsStoreObject
                THEN SelectSeq(filters, LAMBDA e : e.key # key) ELSE filters
  /\ UNCHANGED <<components, display_data, response_data, registered, stack, exc, call, trial, produced>>

CallerMutates ==
  \/ CallerSetsEntry(<<"issues">>, IssuesDamaged)
  \/ CallerSetsEntry(<<"parking_duration">>, DurationHours)
  \/ \E key \in {<<"issues">>, <<"parking_duration">>} : CallerDeletesEntry(key)

NextAlias == Next \/ CallerMutates

SpecAlias == Init /\ [][NextAlias]_vars

\* ==================================================================== claims
IsSetter(fr) == fr.steps = SetterSteps
\* The call has run all its statements and is about to return.
Done(fr) == fr.pc > Len(fr.steps)
\* The call has run the statement of this name.
Executed(fr, name) == \E i \in 1..(fr.pc - 1) : fr.steps[i] = name
Count(seq, x) == Cardinality({i \in 1..Len(seq) : seq[i] = x})
Increasing(seq) == \A i, j \in 1..Len(seq) : i < j => seq[i] < seq[j]
KeyOf(c) == elementIdToComponentKey(registered[c])

\* C1: whenever no store call is in progress, and whenever a `filters = f`
\* assignment has run to its end, display_data is applyFilters of response_data
\* under the current filters.
C1_DisplayDataCurrent ==
  (stack = <<>> \/ (IsSetter(Top) /\ Done(Top) /\ exc = "none"))
    => display_data = applyFilters(response_data, filters).ret

\* C1 witness: components are registered, an assignment of a non-empty mapping
\* has completed and display_data is a proper part of the dataset.
C1_Witness ==
  /\ stack = <<>>
  /\ exc = "none"
  /\ components # <<>>
  /\ filters # <<>>
  /\ Len(display_data) < Len(response_data)

\* C2, as stated: in every `filters = f` assignment the refresh() calls come
\* after the recomputation of display_data, and when the setter is about to
\* return every component that has registered with the store has had exactly
\* one refresh() call.
C2_EveryRegisteredRefreshedOnce ==
  \A i \in 1..Len(stack) :
    IsSetter(stack[i]) =>
      /\ stack[i].calls # <<>> => Executed(stack[i], "recompute")
      /\ Done(stack[i]) => \A c \in ComponentIds : Count(stack[i].calls, c) = 1

\* C2, amended: the same for the components the registry held when the
\* broadcast started; no other component has a refresh() call.
C2_EveryHeldRefreshedOnce ==
  \A i \in 1..Len(stack) :
    IsSetter(stack[i]) =>
      /\ stack[i].calls # <<>> => Executed(stack[i], "recompute")
      /\ Done(stack[i]) =>
           \A c \in ComponentIds :
             Count(stack[i].calls, c) = IF c \in stack[i].held THEN 1 ELSE 0

\* C2 witness: a setter about to return after a broadcast to two components.
C2_Witness ==
  \E i \in 1..Len(stack) :
    IsSetter(stack[i]) /\ Done(stack[i]) /\ Len(stack[i].calls) = 2

\* C3, as stated: every broadcast calls refresh() in registration order.
C3_BroadcastInRegistrationOrder ==
  \A i \in 1..Len(stack) : Increasing(stack[i].calls)

NoIndexKeys == \A c \in ComponentIds : ~IsArrayIndex(KeyOf(c))
DistinctKeys == \A c, d \in ComponentIds : c # d => KeyOf(c) # KeyOf(d)

\* C3, amended: every broadcast calls refresh() in registration order when no
\* registry key is an array index and no two registered components share a key.
C3_BroadcastInRegistrationOrderOfNamedKeys ==
  (NoIndexKeys /\ DistinctKeys) =>
    \A i \in 1..Len(stack) : Increasing(stack[i].calls)

\* C3 witness: a broadcast has called two components registered under distinct
\* keys that are no array indices.
C3_Witness ==
  /\ NoIndexKeys
  /\ DistinctKeys
  /\ \E i \in 1..Len(stack) : Len(stack[i].calls) = 2

\* C4, as stated: at most one `filters = f` assignment is in progress at a time.
C4_OneUpdateAtATime ==
  Cardinality({i \in 1..Len(stack) : IsSetter(stack[i])}) <= 1

\* C4, amended: a call of the store begins while another is in progress only
\* from inside a component's refresh() that the other one is running, and the
\* outer call stays as it is, suspended in that refresh(), until the inner
\* one has returned or thrown.
C4_UpdatesNestInsideRefresh ==
  /\ [](\A i \in 1..(Len(stack) - 1) :
          /\ stack[i].running
          /\ ~Done(stack[i])
          /\ stack[i].steps[stack[i].pc] = "refresh")
  /\ [][\A i \in 1..(Len(stack) - 1) :
          Len(stack') >= i /\ stack'[i] = stack[i]]_vars

\* C4 witness: a component's refresh() has assigned filters during the broadcast
\* of another assignment, and the inner assignment is recomputing.
C4_Witness ==
  /\ Len(stack) = 2
  /\ IsSetter(stack[1])
  /\ IsSetter(stack[2])
  /\ stack[2].steps[stack[2].pc] = "recompute"
  /\ stack[1].f # stack[2].f

\* C5: a caller's change of the mapping it read from `filters` leaves the
\* store's filters and display_data as they were, and display_data still is
\* applyFilters of response_data under the store's filters.
C5_CallerMutationLeavesStore ==
  [][CallerMutates =>
       /\ filters' = filters
       /\ display_data' = display_data
       /\ display_data' = applyFilters(response_data', filters').ret]_vars

\* C6: an error thrown by a component's refresh() during a broadcast leaves
\* refresh() and the setter that started the broadcast, and is then at the
\* caller: the store neither catches it nor goes on with the loop.
C6_RefreshErrorPropagates ==
  [][(exc = "raised" /\ stack # <<>>) =>
       /\ stack' = Pop(stack)
       /\ exc' = IF IsSetter(Top) THEN "fromSetter" ELSE "fromRefresh"]_vars

\* C6 witness: the error of a component's refresh() has left the setter and
\* reached the event handler that assigned filters.
C6_Witness == stack = <<>> /\ exc = "fromSetter"

NoUnderscore(id) == \A i \in 1..Len(id) : id[i] # "_"
HasHyphen(id) == \E i \in 1..Len(id) : id[i] = "-"
\* Component c is in the registry, under the key of its root identifier.
Entered(c) == \E i \in 1..Len(components) : components[i] = [key |-> KeyOf(c), value |-> c]
\* No other component was registered under the key of c or d.
KeysUntouched(c, d) ==
  \A e \in ComponentIds \ {c, d} : KeyOf(e) # KeyOf(c) /\ KeyOf(e) # KeyOf(d)

\* C7, as stated: two components with distinct root identifiers are registered
\* under distinct keys, and both are in the registry.
C7_DistinctIdsDistinctEntries ==
  \A c, d \in ComponentIds :
    (c # d /\ registered[c] # registered[d]) =>
      /\ KeyOf(c) # KeyOf(d)
      /\ KeysUntouched(c, d) => (Entered(c) /\ Entered(d))

\* C7, amended: the same for distinct root identifiers that hold no underscore.
C7_DistinctIdsWithoutUnderscoreDistinctEntries ==
  \A c, d \in ComponentIds :
    (c # d /\ registered[c] # registered[d]
       /\ NoUnderscore(registered[c]) /\ NoUnderscore(registered[d])) =>
      /\ KeyOf(c) # KeyOf(d)
      /\ KeysUntouched(c, d) => (Entered(c) /\ Entered(d))

\* C7 witness: two components whose distinct root identifiers hold a hyphen and
\* no underscore are both in the registry.
C7_Witness ==
  \E c, d \in ComponentIds :
    /\ c # d
    /\ registered[c] # registered[d]
    /\ HasHyphen(registered[c]) /\ HasHyphen(registered[d])
    /\ NoUnderscore(registered[c]) /\ NoUnderscore(registered[d])
    /\ Entered(c) /\ Entered(d)

\* C8, as stated: every component that registered is in the registry ever after.
C8_RegisteredStaysRegistered ==
  \A c \in ComponentIds : c \in Held(components)

\* C8, amended: a component that registered is in the registry unless a later
\* registerComponent call came with a root identifier of the same key; no
\* filters assignment and no refresh takes it out.
C8_RegisteredUntilKeyReused ==
  \A c \in ComponentIds :
    c \in Held(components) <=> ~(\E d \in ComponentIds : d > c /\ KeyOf(d) = KeyOf(c))

\* C8 witness: two components are in the registry after a filters assignment
\* that followed their registration has returned.
C8_Witness ==
  /\ Len(registered) = 2
  /\ Held(components) = {1, 2}
  /\ stack = <<>>
  /\ exc = "none"
  /\ filters # <<>>

\* C9: no step of the store changes response_data.
C9_ResponseDataUnchanged == [][response_data' = response_data]_vars

\* C9 witness: after registrations, a filters assignment that filtered reports
\* out and a direct applyFilters call.
C9_Witness ==
  /\ components # <<>>
  /\ filters # <<>>
  /\ Len(display_data) < Len(response_data)
  /\ call.made
  /\ Len(call.ret) < Len(response_data)

\* Every filter of the mapping tests true for the report.
Accepts(filters_, report) == \A i \in 1..Len(filters_) : Test(filters_[i].value, report)
Reorderings(filters_) ==
  {[i \in 1..Len(filters_) |-> filters_[pi[i]]] : pi \in Permutations(1..Len(filters_))}

\* C10: applyFilters returns the reports of response_data, in their order, that
\* every filter of the mapping accepts, and returns the same for the mapping's
\* properties created in any other order.
C10_ApplyFiltersIsConjunction ==
  call.made =>
    /\ call.ret = SelectSeq(response_data, LAMBDA r : Accepts(call.filters, r))
    /\ \A other \in Reorderings(call.filters) :
         applyFilters(response_data, other).ret = call.ret

\* C10 witness: a mapping of two filters was applied; one report is kept, one
\* is rejected by the first filter alone and one by the second alone.
C10_Witness ==
  /\ call.made
  /\ Len(call.filters) = 2
  /\ Len(call.ret) > 0
  /\ \E i, j \in 1..Len(response_data) :
       /\ ~Test(call.filters[1].value, response_data[i])
       /\ Test(call.filters[2].value, response_data[i])
       /\ Test(call.filters[1].value, response_data[j])
       /\ ~Test(call.filters[2].value, response_data[j])

RECURSIVE IsSubsequence(_, _)
IsSubsequence(a, b) ==
  IF a = <<>> THEN TRUE
  ELSE IF b = <<>> THEN FALSE
  ELSE IF Head(a) = Head(b)
       THEN IsSubsequence(Tail(a), Tail(b)) \/ IsSubsequence(a, Tail(b))
       ELSE IsSubsequence(a, Tail(b))

\* C11: what applyFilters returns is a subsequence of response_data: reports of
\* the dataset, none more often than there, in the dataset's order.
C11_ResultIsSubsequence ==
  call.made => IsSubsequence(call.ret, response_data)

\* C11 witness: a filter mapping was applied that keeps two reports and drops
\* another.
C11_Witness ==
  /\ call.made
  /\ call.filters # <<>>
  /\ Len(call.ret) >= 2
  /\ Len(call.ret) < Len(response_data)

\* C12: applyFilters with an empty mapping returns the dataset as it is, and
\* once the empty mapping is assigned to `filters` display_data is the full
\* dataset, in the dataset's order.
C12_EmptyMappingKeepsDataset ==
  /\ (call.made /\ call.filters = <<>>) => call.ret = response_data
  /\ (stack # <<>> /\ IsSetter(Top) /\ Top.f = <<>> /\ Executed(Top, "recompute"))
       => display_data = response_data
  /\ (stack = <<>> /\ filters = <<>>) => display_data = response_data

\* C12 witness: the assignment of the empty mapping has run to its end on a
\* dataset of several reports, one of them twice.
C12_Witness ==
  /\ stack # <<>>
  /\ IsSetter(Top) /\ Top.f = <<>> /\ Done(Top)
  /\ Len(response_data) = MaxReports
  /\ response_data[1] = response_data[MaxReports]
  /\ response_data[1] # response_data[2]
  /\ display_data = response_data

\* C13: an assignment of the mapping of an earlier assignment stores a
\* display_data equal to the one the earlier assignment stored: the same
\* reports in the same order.
C13_SameMappingSameDisplay ==
  (produced # <<>> /\ JustRecomputed /\ Top.f = produced[1].f)
    => display_data = produced[1].display_data

\* C13 witness: a mapping that filters reports out is assigned again, after a
\* component was constructed since its first assignment and while components
\* were registered before the first.
C13_Witness ==
  /\ produced # <<>>
  /\ JustRecomputed
  /\ Top.f = produced[1].f
  /\ Top.f # <<>>
  /\ produced[1].at > 0
  /\ Len(registered) > produced[1].at
  /\ Len(display_data) < Len(response_data)

\* C14: the construction of a filter of any variant with a state that is no
\* array throws and gives no instance, and leaves the store's filters,
\* display_data and registry as they were.
C14_NonArrayStateThrows ==
  /\ [](  (trial.made /\ trial.op = "new" /\ ~InstanceOfArray(trial.state))
            => (trial.outcome.threw /\ trial.outcome.instance = <<>>))
  /\ [][ (trial'.made /\ ~trial.made /\ trial'.op = "new")
            => /\ filters' = filters
               /\ display_data' = display_data
               /\ components' = components ]_vars

\* C14 witness: a WeekDayPeriodFilter was constructed with an array-like
\* object on a store holding filters and components.
C14_Witness ==
  /\ trial.made /\ trial.op = "new"
  /\ trial.variant = "weekday_period"
  /\ trial.state = ArrayLike
  /\ trial.outcome.threw
  /\ filters # <<>>
  /\ components # <<>>
  /\ Len(display_data) < Len(response_data)

\* Deep equality of two values: the same type, the same primitive value, the
\* same elements at the same positions, the same keys with deep-equal values.
RECURSIVE DeepEqual(_, _)
DeepEqual(x1, x2) ==
  /\ x1.t = x2.t
  /\ CASE x1.t = "string" -> x1.chars = x2.chars
       [] x1.t = "number" -> x1.n = x2.n
       [] x1.t = "array" ->
            /\ Len(x1.items) = Len(x2.items)
            /\ \A i \in 1..Len(x1.items) : DeepEqual(x1.items[i], x2.items[i])
       [] x1.t = "object" ->
            /\ ObjectKeys(x1) = ObjectKeys(x2)
            /\ \A key \in ObjectKeys(x1) :
                 DeepEqual(GetProperty(x1, key), GetProperty(x2, key))
       [] OTHER -> TRUE

\* C15: stateEquals(otherState) returns true exactly when otherState is a list
\* as long as the filter's state whose elements are deep-equal to the state's,
\* position by position.
C15_StateEqualsIsDeepEquality ==
  (trial.made /\ trial.op = "stateEquals")
    => (trial.outcome = "true"
          <=> /\ InstanceOfArray(trial.otherState)
              /\ Len(trial.otherState.items) = Len(trial.state.items)
              /\ \A i \in 1..Len(trial.state.items) :
                   DeepEqual(trial.state.items[i], trial.otherState.items[i]))

\* C16: analytics_event returns normally whether the tracking call returns or
\* throws, and leaves the store's filters, display_data and registry, and the
\* store call it was made from, as they were.
C16_AnalyticsFailureIsCaught ==
  /\ []((trial.made /\ trial.op = "analytics_event") => ~trial.outcome.threw)
  /\ [][ (trial'.made /\ ~trial.made /\ trial'.op = "analytics_event")
            => /\ filters' = filters
               /\ display_data' = display_data
               /\ components' = components
               /\ stack' = stack
               /\ exc' = exc ]_vars

\* C16 witness: a component's refresh(), called by the broadcast of an
\* assignment, called analytics_event and the tracking call threw.
C16_Witness ==
  /\ trial.made /\ trial.op = "analytics_event"
  /\ trial.umami = "throws"
  /\ trial.outcome.logged
  /\ stack # <<>>
  /\ IsSetter(Top) /\ Top.running
  /\ filters # <<>>

\* The names given to the constructor of the weekday filter tested, in lower case.
GivenLowerCased ==
  JsArray(1, [i \in 1..Len(trial.given.items) |->
                JsString(toLowerCase(trial.given.items[i].chars))])

\* C17: WeekDayPeriodFilter.test(report) is true exactly when the ISO weekday
\* of the report's parking time is the index of one of the names given at
\* construction, read without regard to letter case; the filter built from the
\* same names in lower case gives the same result.
C17_WeekdayTestIgnoresCase ==
  (trial.made /\ trial.op = "test" /\ trial.variant = "weekday_period")
    => /\ trial.outcome
            <=> \E i \in 1..Len(trial.given.items) :
                  dayIndex(JsString(toLowerCase(trial.given.items[i].chars)))
                    = JsNumber(parseParkingTime(trial.report.parking_time).weekday)
       /\ trial.outcome
            = WeekDayPeriodFilterTest(WeekDayPeriodFilter(GivenLowerCased).instance[1]._state,
                                      trial.report)

\* C17 witness: the filter constructed with "SATURDAY" accepted a report whose
\* parking time is a Saturday.
C17_Witness ==
  /\ trial.made /\ trial.op = "test" /\ trial.variant = "weekday_period"
  /\ trial.given.items = <<JsString(SATURDAY)>>
  /\ parseParkingTime(trial.report.parking_time).weekday = 6
  /\ trial.outcome

\* The values of an array, as a set.
Range(arr) == {arr[i] : i \in 1..Len(arr)}

\* C18: IssuesFilter.test(report) is true exactly when the report's issues and
\* the filter's state have a tag in common, and ParkingDurationFilter.test(report)
\* exactly when the report's duration category is in the filter's state.
C18_IssuesIntersectDurationMember ==
  /\ (trial.made /\ trial.op = "test" /\ trial.variant = "issues")
       => (trial.outcome
             <=> Range(trial.report.issues) \cap Range(trial.reportFilter.state) # {})
  /\ (trial.made /\ trial.op = "test" /\ trial.variant = "parking_duration")
       => (trial.outcome
             <=> trial.report.parking_duration \in Range(trial.reportFilter.state))

\* C18 witness: an IssuesFilter accepted a report of two issues of which its
\* state lists one.
C18_Witness ==
  /\ trial.made /\ trial.op = "test" /\ trial.variant = "issues"
  /\ Len(trial.report.issues) = 2
  /\ ~(Range(trial.report.issues) \subseteq Range(trial.reportFilter.state))
  /\ trial.outcome

\* C19: a call of applyFilters with a mapping of the caller's and a
\* registration of a component leave the store's filters and display_data as
\* they were and start no call of any component's refresh(): the calls in
\* progress, with the refresh() calls each has made, stay as they are.
C19_NoBroadcastWithoutSetterOrRefresh ==
  [][ (registered' # registered \/ (call'.made /\ ~call.made))
        => /\ filters' = filters
           /\ display_data' = display_data
           /\ stack' = stack ]_vars

\* C19 witness: on a store with a component registered, applyFilters was called
\* with a mapping that is not the store's and returned other reports than the
\* store displays.
C19_Witness ==
  /\ call.made
  /\ call.filters # filters
  /\ call.ret # display_data
  /\ components # <<>>
  /\ filters # <<>>

\* The component whose refresh() raised is the k-th of a `filters = f` broadcast.
RaisedInSetter == exc = "raised" /\ stack # <<>> /\ IsSetter(Top)

\* In the broadcast of this call, the components before the one being called
\* have been called once, and the components after it not at all.
RefreshedUpTo(fr) ==
  /\ \A i \in 1..Len(fr.order) :
       Count(fr.calls, fr.order[i]) = (IF i <= fr.next THEN 1 ELSE 0)
  /\ Len(fr.calls) = fr.next

\* C20 as stated: when the k-th component raises inside refresh() during
\* `filters = f`, the store holds filters = f and display_data =
\* applyFilters(response_data, f), the components before k have been refreshed
\* once and the components after k not.
C20_RaiseLeavesAssignedMapping ==
  RaisedInSetter
    => /\ filters = Top.f
       /\ display_data = applyFilters(response_data, Top.f).ret
       /\ RefreshedUpTo(Top)

\* C20, amended: a `filters = f` broadcast begins with filters = f and
\* display_data = applyFilters(response_data, f); filters and display_data are
\* written only by the two statements of a setter, never when a refresh()
\* raises or its error unwinds (no rollback); so when the k-th component
\* raises, display_data = applyFilters(response_data, filters) for the mapping
\* assigned last, and in this broadcast the components before k have been
\* refreshed once and the components after k not.
C20_RaiseLeavesLatestAssignment ==
  /\ [](JustRecomputed
          => filters = Top.f /\ display_data = applyFilters(response_data, Top.f).ret)
  /\ [](RaisedInSetter
          => /\ display_data = applyFilters(response_data, filters).ret
             /\ RefreshedUpTo(Top))
  /\ [][ /\ filters' # filters => (AtStep("assign") /\ filters' = Top.f)
         /\ display_data' # display_data => AtStep("recompute") ]_vars

\* C20 witness: the second component of a broadcast raised, after the first
\* had assigned another mapping in its refresh().
C20_Witness ==
  /\ RaisedInSetter
  /\ Top.next = 2
  /\ Len(Top.order) = 2
  /\ filters # Top.f
  /\ Len(stack) = 1
====
